---- MODULE Spec2Model ----
(***************************************************************************)
(* A model of the CFMMC settlement-report downloader (src/program1.py):    *)
(* the session client CFMMCCrawler, the batch worker DownloadThread.run,   *)
(* and the two calls the GUI thread makes into a running worker (cancel,   *)
(* set_captcha).  The portal is the environment: each request the client   *)
(* sends gets one of the answers the client's code distinguishes.          *)
(*                                                                         *)
(* Spec is a batch run; FairSpec and AnsweredSpec add the scheduling of    *)
(* the worker thread and of the modal CAPTCHA dialog.  ClientSpec is one   *)
(* CFMMCCrawler under any sequence of calls of its methods, EnumSpec the   *)
(* two period enumerations under any arguments, CrawlerSpec a crawler in   *)
(* either use.  ManagerSpec is the AccountManager's list of stored         *)
(* accounts under its add, edit and search handlers.                       *)
(*                                                                         *)
(* Encodings.  An 8-digit date string 'YYYYMMDD' is the number YYYYMMDD.   *)
(* A token is a positive number; a token that fails Python's truth test    *)
(* (None, or the empty string of a form whose token input has value="")    *)
(* is 0.  An optional                                                      *)
(* text (captcha_code, verification_code) is a sequence: << >> is None,    *)
(* <<s>> is the string s.  Report types: "daily" is '日报', "monthly" is   *)
(* '月报'.  Query types: "by_day" is '逐日', "by_trade" is '逐笔'.          *)
(***************************************************************************)
EXTENDS Integers, Sequences, FiniteSets, TLC

(* ---------------------------------------------------------------- bounds *)

\* Longest account list handed to DownloadThread.
MaxAccounts == 2

\* Longest list of accounts stored in the AccountManager by add_account.
MaxStored == 2

\* Most deletions the AccountManager's undo stack holds.
MaxUndo == 1

\* DownloadThread.max_retry, the number of rejected CAPTCHAs at which run()
\* turns to the operator.  It is an attribute of the thread object, 1000 as
\* constructed; run() uses it only in the two comparisons with retry_count,
\* and the model runs it at a small value.
max_retry == 3

(* ------------------------------------------------------------- constants *)

\* datetime.MAXYEAR: dt.date / dt.datetime hold years 1..9999.
MAXYEAR == 9999

None == 0

NoText == << >>

Text(s) == <<s>>

\* Python truthiness of an optional text: None and '' are falsy.
Truthy(c) == c # NoText /\ c[1] # ""

(* ------------------------------------------------------------- calendar  *)

IsLeap(y) == (y % 4 = 0) /\ ((y % 100 # 0) \/ (y % 400 = 0))

DaysInMonth(y, m) ==
    IF m \in {4, 6, 9, 11} THEN 30
    ELSE IF m = 2 THEN (IF IsLeap(y) THEN 29 ELSE 28)
    ELSE 31

DaysBeforeYear(y) ==
    (y - 1) * 365 + ((y - 1) \div 4) - ((y - 1) \div 100) + ((y - 1) \div 400)

RECURSIVE DaysBeforeMonth(_, _)
DaysBeforeMonth(y, m) ==
    IF m = 1 THEN 0 ELSE DaysBeforeMonth(y, m - 1) + DaysInMonth(y, m - 1)

\* date.toordinal()
Ordinal(d) == DaysBeforeYear(d.y) + DaysBeforeMonth(d.y, d.m) + d.d

\* date.weekday(): Monday is 0, Sunday is 6.
Weekday(d) == (Ordinal(d) + 6) % 7

Date(y, m, d) == [y |-> y, m |-> m, d |-> d]

DateLE(a, b) ==
    \/ a.y < b.y
    \/ a.y = b.y /\ a.m < b.m
    \/ a.y = b.y /\ a.m = b.m /\ a.d <= b.d

\* The fields of an 8-digit string: s[:4], s[4:6], s[6:8].
YearOf(s) == s \div 10000

MonthOf(s) == (s \div 100) % 100

DayOf(s) == s % 100

ValidDate(y, m, d) ==
    /\ 1 <= y /\ y <= MAXYEAR
    /\ 1 <= m /\ m <= 12
    /\ 1 <= d /\ d <= DaysInMonth(y, m)

\* The result of an enumeration: the list, or the exception that ended it.
Returned(seq) == [raised |-> FALSE, value |-> seq]

Raised == [raised |-> TRUE, value |-> << >>]

\* current + timedelta(days=1): OverflowError past 9999-12-31.
CanAddDay(d) == ~(d.y = MAXYEAR /\ d.m = 12 /\ d.d = 31)

AddDay(d) ==
    IF d.d < DaysInMonth(d.y, d.m) THEN Date(d.y, d.m, d.d + 1)
    ELSE IF d.m < 12 THEN Date(d.y, d.m + 1, 1)
    ELSE Date(d.y + 1, 1, 1)

RECURSIVE TradingDaysLoop(_, _, _)
TradingDaysLoop(current, end, trading_days) ==
    IF ~DateLE(current, end) THEN Returned(trading_days)
    ELSE LET appended == IF Weekday(current) < 5
                         THEN Append(trading_days, current)
                         ELSE trading_days
         IN  IF CanAddDay(current)
             THEN TradingDaysLoop(AddDay(current), end, appended)
             ELSE Raised

get_trading_days(start_date, end_date) ==
    IF ~ValidDate(YearOf(start_date), MonthOf(start_date), DayOf(start_date))
       \/ ~ValidDate(YearOf(end_date), MonthOf(end_date), DayOf(end_date))
    THEN Raised
    ELSE TradingDaysLoop(
            Date(YearOf(start_date), MonthOf(start_date), DayOf(start_date)),
            Date(YearOf(end_date), MonthOf(end_date), DayOf(end_date)),
            << >>)

RECURSIVE MonthsLoop(_, _, _)
MonthsLoop(start, end, storage) ==
    IF ~DateLE(start, end) THEN Returned(storage)
    ELSE LET next_month == IF start.m + 1 > 12 THEN 1 ELSE start.m + 1
             next_year == IF start.m + 1 > 12 THEN start.y + 1 ELSE start.y
         IN  IF ValidDate(next_year, next_month, 1)
             THEN MonthsLoop(Date(next_year, next_month, 1), end,
                             Append(storage, start))
             ELSE Raised

generate_months_first_day(start_date, end_date) ==
    IF ~ValidDate(YearOf(start_date), MonthOf(start_date), 1)
       \/ ~ValidDate(YearOf(end_date), MonthOf(end_date), 1)
    THEN Raised
    ELSE MonthsLoop(Date(YearOf(start_date), MonthOf(start_date), 1),
                    Date(YearOf(end_date), MonthOf(end_date), 1),
                    << >>)

(* ------------------------------------------------------- inputs of a run *)

\* AccountManager.start_download builds report_types and query_types from
\* check boxes (in this order, never empty) and the dates from two QDateEdit
\* widgets (always valid dates, up to 9999-12-31).
ReportChoices == {<<"daily">>, <<"monthly">>, <<"daily", "monthly">>}

QueryChoices == {<<"by_day">>, <<"by_trade">>, <<"by_day", "by_trade">>}

\* Fri 2024-01-05 .. Mon 2024-01-08; Sat 2023-12-30 .. Mon 2024-01-01;
\* Thu 9999-12-30 alone; Fri 9999-12-31 alone.
DateChoices == {<<20240105, 20240108>>, <<20231230, 20240101>>,
                <<99991230, 99991230>>, <<99991231, 99991231>>}

Configs ==
    {[report_types |-> r, query_types |-> q,
      start_date |-> d[1], end_date |-> d[2]] :
        r \in ReportChoices, q \in QueryChoices, d \in DateChoices}

\* CFMMCCrawler.query_type_dict.keys()
query_type_dict == {"by_day", "by_trade"}

\* What CaptchaDialog.get_code() can return: the stripped text of the edit.
CaptchaTexts == {"", "human"}

\* crawler.ocr.classification(captcha_image)
OcrText == "ocr"

Member(x, seq) == \E i \in 1..Len(seq) : seq[i] = x

(* ------------------------------------------------------------------ state *)

VARIABLES
    accounts,           \* DownloadThread.accounts (account numbers)
    config,             \* DownloadThread.config
    cancelled,          \* DownloadThread.cancelled
    captcha_code,       \* DownloadThread.captcha_code
    dialogOpen,         \* a CaptchaDialog is on screen (show_captcha_dialog)
    pc,                 \* where run() stands
    idx,                \* the account run() is at, 1-based; 0 before the first
    login_success,      \* run(): login_success
    retry_count,        \* run(): retry_count
    token,              \* run(): token, from get_login_page
    captcha_image,      \* run(): captcha_image, from get_login_page
    verification_code,  \* run(): verification_code
    crawler_token,      \* crawler.token
    crawler_ss,         \* crawler._ss: << >> or <<account, n-th session>>
    portalToken,        \* the number of the page the portal sent last in
                        \* crawler._ss, which is the token it holds for the
                        \* session when that page has one
    gran,               \* the report type whose loops run() is in
    periods,            \* run(): trading_days or months, by gran
    qi,                 \* position in query_types, 1-based
    pi,                 \* position in periods, 1-based
    current_task,       \* run(): current_task
    total_tasks,        \* run(): total_tasks
    emitted,            \* the signals the last step emitted, in order
    posted,             \* the parameter-selection POST of the last step
    nBegin,             \* get_login_page calls for this account
    nLogin,             \* login calls for this account
    lastLoginCode,      \* the vericode of this account's latest login call
    loginCall,          \* this account's latest login call: the token it
                        \* posted, the image its vericode was read from, the
                        \* session it posted in, and the portal's answer
    original_accounts,  \* AccountManager: the stored accounts
    current_accounts,   \* AccountManager: the accounts the table shows
    edited,             \* AccountManager: the latest handler call, when it
                        \* was edit_account: the row, the lists before it,
                        \* the record built from the dialogs, and whether
                        \* every dialog was confirmed
    deleted_stack,      \* AccountManager: the lists of deleted accounts
    nLoginFailed,       \* login_failed signals for this account
    calls,              \* download operations invoked for this account
    authenticated,      \* login returned normally for this account
    loggedOut,          \* logout() was invoked for this account
    loginExit,          \* how the login loop was left
    lastReturned,       \* the token of the latest token-bearing response
    cancelIdx,          \* the account run() was at when cancel() was called
    authAtCancel,       \* that account was logged in when cancel() was called
    dlAfterCancel,      \* download operations started after cancel()
    raised,             \* download operations that raised, for this account
    begun,              \* the accounts get_login_page was called for
    failedAccts,        \* the accounts a login or account-level failure hit
    lastPercent,        \* the percent of this run's latest progress signal
    client,             \* the arguments a directly driven client was built with
    probe               \* the latest direct call: its arguments and what it did

vars == <<accounts, config, cancelled, captcha_code, dialogOpen, pc, idx,
          login_success, retry_count, token, captcha_image,
          verification_code, crawler_token, crawler_ss, portalToken, gran,
          periods, qi, pi, current_task, total_tasks, emitted, posted,
          nBegin, nLogin, lastLoginCode, nLoginFailed, calls, authenticated,
          loggedOut, loginExit, lastReturned, cancelIdx, authAtCancel,
          dlAfterCancel, raised, begun, failedAccts, lastPercent, client,
          probe, loginCall, original_accounts, current_accounts, edited,
          deleted_stack>>

\* The state of the AccountManager's account lists (ManagerSpec).
managerVars ==
    <<original_accounts, current_accounts, edited, deleted_stack>>

\* The state of a caller that drives one CFMMCCrawler directly (ClientSpec),
\* and the AccountManager's lists; DownloadThread.run touches neither, and
\* holds no such client (NoClient).
driverVars == <<client, probe, managerVars>>

guiVars == <<cancelled, captcha_code, dialogOpen, cancelIdx, authAtCancel>>

batchHistory == <<begun, failedAccts>>

inputVars == <<accounts, config>>

loginVars == <<login_success, retry_count, token, captcha_image,
               verification_code>>

taskVars == <<gran, periods, qi, pi, current_task, total_tasks>>

sessionVars == <<crawler_token, crawler_ss, portalToken, lastReturned>>

loginHistory ==
    <<nBegin, nLogin, lastLoginCode, loginCall, nLoginFailed, loginExit>>

Event(kind) == [kind |-> kind, arg |-> 0]

EventWith(kind, arg) == [kind |-> kind, arg |-> arg]

AccountLists == {[i \in 1..n |-> i] : n \in 0..MaxAccounts}

\* A call record: the method, its arguments, the response page it read
\* (<< >> when none), how it ended ("returned" or the exception's class), the
\* requests and file-system operations it made in order, self.token before
\* the call, the value returned, and the form data of the POST it made: the
\* form's token field as an optional value (<< >> when the POST has no form
\* data, or when the call made no POST).
CallRecord(op, args, response, outcome, effects, before, value, sent) ==
    [op |-> op, args |-> args, response |-> response, outcome |-> outcome,
     effects |-> effects, before |-> before, value |-> value, sent |-> sent]

NoCall ==
    CallRecord("none", << >>, << >>, "returned", << >>, None, << >>, << >>)

NoLoginCall ==
    [token |-> None, image |-> 0, session |-> << >>, answer |-> "none"]

NoEdit ==
    [row |-> -1, before |-> << >>, shown |-> << >>, new |-> << >>,
     confirmed |-> FALSE, called |-> FALSE]

\* AccountManager.__init__ without a config file: load_config gives
\* {'accounts': []}; current_accounts is a copy.
ManagerInit ==
    /\ original_accounts = << >>
    /\ current_accounts = << >>
    /\ edited = NoEdit
    /\ deleted_stack = << >>

NoClient ==
    [output_dir |-> << >>, division_name |-> << >>, company_short |-> << >>,
     account_no |-> None]

Init ==
    /\ accounts \in AccountLists
    /\ config \in Configs
    /\ cancelled = FALSE
    /\ captcha_code = NoText
    /\ dialogOpen = FALSE
    /\ pc = "acct_check"
    /\ idx = 0
    /\ login_success = FALSE
    /\ retry_count = 0
    /\ token = None
    /\ captcha_image = 0
    /\ verification_code = NoText
    /\ crawler_token = None
    /\ crawler_ss = << >>
    /\ portalToken = None
    /\ gran = "daily"
    /\ periods = << >>
    /\ qi = 1
    /\ pi = 1
    /\ current_task = 0
    /\ total_tasks = 0
    /\ emitted = << >>
    /\ posted = << >>
    /\ nBegin = 0
    /\ nLogin = 0
    /\ lastLoginCode = NoText
    /\ loginCall = NoLoginCall
    /\ nLoginFailed = 0
    /\ calls = << >>
    /\ authenticated = FALSE
    /\ loggedOut = FALSE
    /\ loginExit = "none"
    /\ lastReturned = None
    /\ cancelIdx = 0
    /\ authAtCancel = FALSE
    /\ dlAfterCancel = 0
    /\ raised = 0
    /\ begun = {}
    /\ failedAccts = {}
    /\ lastPercent = << >>
    /\ client = NoClient
    /\ probe = NoCall
    /\ ManagerInit

(* --------------------------------------------------------- the GUI thread *)

\* DownloadThread.cancel
cancel ==
    /\ cancelled' = TRUE
    /\ captcha_code' = NoText
    /\ cancelIdx' = IF cancelled THEN cancelIdx ELSE idx
    /\ authAtCancel' = IF cancelled THEN authAtCancel ELSE authenticated

\* AccountManager.cancel_download: the cancel button, while
\* download_thread.isRunning(), that is until run() has returned.
CancelDownload ==
    /\ pc # "returned"
    /\ ~cancelled
    /\ cancel
    /\ UNCHANGED <<inputVars, driverVars, lastPercent,
                   dialogOpen, pc, idx, loginVars, sessionVars,
                   taskVars, emitted, posted, loginHistory, calls,
                   authenticated, loggedOut, dlAfterCancel, raised,
                   batchHistory>>

\* AccountManager.show_captcha_dialog, dialog accepted:
\* set_captcha(get_code()).
SetCaptcha ==
    /\ dialogOpen
    /\ \E code \in CaptchaTexts : captcha_code' = Text(code)
    /\ dialogOpen' = FALSE
    /\ UNCHANGED <<inputVars, driverVars, lastPercent,
                   cancelled, cancelIdx, authAtCancel, pc, idx,
                   loginVars, sessionVars, taskVars, emitted, posted,
                   loginHistory, calls, authenticated, loggedOut,
                   dlAfterCancel, raised, batchHistory>>

\* AccountManager.show_captcha_dialog, dialog rejected: cancel().
RejectCaptcha ==
    /\ dialogOpen
    /\ cancel
    /\ dialogOpen' = FALSE
    /\ UNCHANGED <<inputVars, driverVars, lastPercent,
                   pc, idx, loginVars, sessionVars, taskVars,
                   emitted, posted, loginHistory, calls, authenticated,
                   loggedOut, dlAfterCancel, raised, batchHistory>>

(* ------------------------------------------- DownloadThread.run: accounts *)

\* One crawler serving every account of the batch.
NewCrawler_Shared == [token |-> crawler_token, ss |-> crawler_ss]

\* crawler = CFMMCCrawler(...): self._ss = None; self.token = None
NewCrawler == [token |-> None, ss |-> << >>]

\* for idx, account in enumerate(self.accounts): if self.cancelled: break;
\* a new CFMMCCrawler; login_success = False; retry_count = 0.  After the
\* loop: self.finished.emit().  run()'s other locals are assigned again
\* before they are read, so they are cleared here.
AcctCheck ==
    /\ pc = "acct_check"
    /\ IF idx < Len(accounts) /\ ~cancelled
       THEN /\ idx' = idx + 1
            /\ crawler_token' = NewCrawler.token
            /\ crawler_ss' = NewCrawler.ss
            /\ portalToken' = None
            /\ lastReturned' = None
            /\ login_success' = FALSE
            /\ retry_count' = 0
            /\ token' = None
            /\ captcha_image' = 0
            /\ verification_code' = NoText
            /\ gran' = "daily"
            /\ periods' = << >>
            /\ qi' = 1
            /\ pi' = 1
            /\ current_task' = 0
            /\ total_tasks' = 0
            /\ nBegin' = 0
            /\ nLogin' = 0
            /\ lastLoginCode' = NoText
            /\ loginCall' = NoLoginCall
            /\ nLoginFailed' = 0
            /\ calls' = << >>
            /\ authenticated' = FALSE
            /\ loggedOut' = FALSE
            /\ loginExit' = "none"
            /\ raised' = 0
            /\ emitted' = << >>
            /\ posted' = << >>
            /\ pc' = "loop_head"
       ELSE /\ emitted' = <<Event("finished")>>
            /\ posted' = << >>
            /\ pc' = "done"
            /\ UNCHANGED <<idx, loginVars, sessionVars, taskVars,
                           loginHistory, calls, authenticated, loggedOut,
                           raised>>
    /\ UNCHANGED <<inputVars, driverVars, lastPercent,
                   guiVars, dlAfterCancel, batchHistory>>

(* ---------------------------------------- DownloadThread.run: login loop *)

\* while not login_success and retry_count < self.max_retry
\*       and not self.cancelled
LoopCond == ~login_success /\ retry_count < max_retry /\ ~cancelled

LoopHead ==
    /\ pc = "loop_head"
    /\ IF LoopCond
       THEN /\ pc' = "get_login_page"
            /\ UNCHANGED loginExit
       ELSE /\ pc' = "post_login"
            /\ loginExit' = IF login_success THEN "success"
                            ELSE IF retry_count >= max_retry THEN "exhausted"
                            ELSE "cancelled"
    /\ emitted' = << >>
    /\ posted' = << >>
    /\ UNCHANGED <<inputVars, driverVars, lastPercent,
                   guiVars, idx, loginVars, sessionVars, taskVars,
                   nBegin, nLogin, lastLoginCode, loginCall, nLoginFailed,
                   calls, authenticated, loggedOut, dlAfterCancel, raised,
                   batchHistory>>

\* except Exception as e: self.login_failed.emit(...); break
LoginOtherError ==
    /\ emitted' = <<Event("login_failed")>>
    /\ nLoginFailed' = nLoginFailed + 1
    /\ loginExit' = "other"
    /\ failedAccts' = failedAccts \cup {idx}
    /\ pc' = "post_login"

\* The handler going round the login loop again (continue for break).
LoginCredentialsError_Retry ==
    /\ emitted' = <<Event("login_failed")>>
    /\ nLoginFailed' = nLoginFailed + 1
    /\ loginExit' = "credentials"
    /\ failedAccts' = failedAccts \cup {idx}
    /\ pc' = "loop_head"

\* except UserNamePasswordError as e: self.login_failed.emit(str(e)); break
LoginCredentialsError ==
    /\ emitted' = <<Event("login_failed")>>
    /\ nLoginFailed' = nLoginFailed + 1
    /\ loginExit' = "credentials"
    /\ failedAccts' = failedAccts \cup {idx}
    /\ pc' = "post_login"

\* One session for the account, opened at its first get_login_page.
session_PerAccount(account, n) == <<account, 1>>

\* self._ss = session(): the session get_login_page opens, named by the
\* account and the number of the call among the account's get_login_page
\* calls.
session(account, n) == <<account, n>>

\* The token of the account's n-th login page: the portal puts a new token
\* in every page it sends, so a page's token is named by the page's number.
page_token(n) == n

\* run()'s local keeping the token of an earlier page of the account.
fetched_token_Kept(old, new) == IF old # None THEN old ELSE new

\* token, captcha_image = crawler.get_login_page(): the local is assigned
\* the token of the page just fetched.
fetched_token(old, new) == new

\* What get_login_page and the OCR can do: return, or raise.
LoginPageOutcomes == {"ok", "page_fail", "ocr_fail"}

\* token, captcha_image = crawler.get_login_page();
\* verification_code = crawler.ocr.classification(captcha_image)
GetLoginPage ==
    /\ pc = "get_login_page"
    /\ nBegin' = nBegin + 1
    /\ begun' = begun \cup {idx}
    /\ crawler_ss' = session(idx, nBegin + 1)
    /\ \E r \in LoginPageOutcomes :
        \/ /\ r = "page_fail"
           /\ portalToken' = None
           /\ UNCHANGED <<token, captcha_image, verification_code>>
           /\ LoginOtherError
        \/ /\ r = "ocr_fail"
           /\ portalToken' = page_token(nBegin + 1)
           /\ token' = fetched_token(token, page_token(nBegin + 1))
           /\ captcha_image' = nBegin + 1
           /\ UNCHANGED verification_code
           /\ LoginOtherError
        \/ /\ r = "ok"
           /\ portalToken' = page_token(nBegin + 1)
           /\ token' = fetched_token(token, page_token(nBegin + 1))
           /\ captcha_image' = nBegin + 1
           /\ verification_code' = Text(OcrText)
           /\ emitted' = << >>
           /\ pc' = "login"
           /\ UNCHANGED <<nLoginFailed, loginExit, failedAccts>>
    /\ posted' = << >>
    /\ UNCHANGED <<inputVars, driverVars, lastPercent,
                   guiVars, idx, login_success, retry_count,
                   crawler_token, lastReturned, taskVars, nLogin,
                   lastLoginCode, loginCall, calls, authenticated, loggedOut,
                   dlAfterCancel, raised>>

\* login: post_data["org.apache.struts.taglib.html.TOKEN"] is the token
\* argument.
login_post_data(tok) == <<tok>>

\* The answers to the login POST that CFMMCCrawler.login tells apart.
LoginResponses ==
    {"ok", "empty_token", "captcha_err", "cred_err", "no_token", "net_err"}

\* The threshold taken one rejection too late.
Escalates_Late(count) == count > max_retry

\* if retry_count >= self.max_retry: (the escalation threshold)
Escalates(count) == count >= max_retry

\* retry_count += 1
NextRetry(count) == count + 1

\* crawler.login(verification_code, token) and run()'s three handlers.
Login ==
    /\ pc = "login"
    /\ nLogin' = nLogin + 1
    /\ lastLoginCode' = verification_code
    /\ \E resp \in LoginResponses :
        /\ loginCall' = [token |-> login_post_data(token)[1],
                         image |-> captcha_image, session |-> crawler_ss,
                         answer |-> resp]
        /\ \/ /\ resp \in {"net_err", "no_token"}
              /\ LoginOtherError
              /\ UNCHANGED <<sessionVars, login_success, retry_count,
                             authenticated, dialogOpen>>
           \/ /\ resp = "captcha_err"
              /\ retry_count' = NextRetry(retry_count)
              /\ IF Escalates(retry_count')
                 THEN /\ emitted' = <<Event("login_failed"),
                                      EventWith("captcha_required",
                                                captcha_image)>>
                      /\ nLoginFailed' = nLoginFailed + 1
                      /\ failedAccts' = failedAccts \cup {idx}
                      /\ dialogOpen' = TRUE
                      /\ pc' = "wait_captcha"
                 ELSE /\ emitted' = << >>
                      /\ pc' = "loop_head"
                      /\ UNCHANGED <<nLoginFailed, dialogOpen, failedAccts>>
              /\ UNCHANGED <<sessionVars, login_success, authenticated,
                             loginExit>>
           \/ /\ resp = "cred_err"
              /\ LoginCredentialsError
              /\ UNCHANGED <<sessionVars, login_success, retry_count,
                             authenticated, dialogOpen>>
           \/ /\ resp \in {"ok", "empty_token"}
              /\ portalToken' = portalToken + 1
              /\ crawler_token' =
                    IF resp = "ok" THEN portalToken + 1 ELSE None
              /\ lastReturned' =
                    IF resp = "ok" THEN portalToken + 1 ELSE None
              /\ login_success' = TRUE
              /\ authenticated' = TRUE
              /\ loginExit' = "success"
              /\ emitted' = << >>
              /\ pc' = "post_login"
              /\ UNCHANGED <<crawler_ss, retry_count, nLoginFailed, dialogOpen,
                             failedAccts>>
    /\ posted' = << >>
    /\ UNCHANGED <<inputVars, driverVars, lastPercent,
                   cancelled, captcha_code, cancelIdx,
                   authAtCancel, idx, token, captcha_image,
                   verification_code, taskVars, nBegin, calls, loggedOut,
                   dlAfterCancel, raised, begun>>

\* while not self.captcha_code and not self.cancelled: self.msleep(100)
WaitCaptcha ==
    /\ pc = "wait_captcha"
    /\ Truthy(captcha_code) \/ cancelled
    /\ pc' = "after_wait"
    /\ emitted' = << >>
    /\ posted' = << >>
    /\ UNCHANGED <<inputVars, driverVars, lastPercent,
                   guiVars, idx, loginVars, sessionVars, taskVars,
                   loginHistory, calls, authenticated, loggedOut,
                   dlAfterCancel, raised, batchHistory>>

\* if self.cancelled: break
AfterWait ==
    /\ pc = "after_wait"
    /\ IF cancelled
       THEN /\ loginExit' = "cancelled"
            /\ pc' = "post_login"
       ELSE /\ pc' = "take_code"
            /\ UNCHANGED loginExit
    /\ emitted' = << >>
    /\ posted' = << >>
    /\ UNCHANGED <<inputVars, driverVars, lastPercent,
                   guiVars, idx, loginVars, sessionVars, taskVars,
                   nBegin, nLogin, lastLoginCode, loginCall, nLoginFailed,
                   calls, authenticated, loggedOut, dlAfterCancel, raised,
                   batchHistory>>

\* verification_code = self.captcha_code; self.captcha_code = None; break
\* (the GUI thread may have called cancel() since the check above)
TakeCode ==
    /\ pc = "take_code"
    /\ verification_code' = captcha_code
    /\ captcha_code' = NoText
    /\ loginExit' = "escalated"
    /\ pc' = "post_login"
    /\ emitted' = << >>
    /\ posted' = << >>
    /\ UNCHANGED <<inputVars, driverVars, lastPercent,
                   cancelled, dialogOpen, cancelIdx, authAtCancel,
                   idx, login_success, retry_count, token, captcha_image,
                   sessionVars, taskVars, nBegin, nLogin, lastLoginCode,
                   loginCall, nLoginFailed, calls, authenticated, loggedOut,
                   dlAfterCancel, raised, batchHistory>>

\* if not login_success or self.cancelled: continue
PostLogin ==
    /\ pc = "post_login"
    /\ pc' = IF ~login_success \/ cancelled THEN "acct_check" ELSE "prep"
    /\ emitted' = << >>
    /\ posted' = << >>
    /\ UNCHANGED <<inputVars, driverVars, lastPercent,
                   guiVars, idx, loginVars, sessionVars, taskVars,
                   loginHistory, calls, authenticated, loggedOut,
                   dlAfterCancel, raised, batchHistory>>

(* ------------------------------------------- DownloadThread.run: downloads *)

\* except Exception as e: self.error_occurred.emit(...); continue
AccountError ==
    /\ emitted' = <<Event("error")>>
    /\ failedAccts' = failedAccts \cup {idx}
    /\ pc' = "acct_check"

\* total_tasks: len(query_types) for each selected report type.
TotalTasks(report_types, query_types) ==
    (IF Member("daily", report_types) THEN Len(query_types) ELSE 0)
    + (IF Member("monthly", report_types) THEN Len(query_types) ELSE 0)

\* report_types .. current_task = 0; if '日报' in report_types:
\* trading_days = crawler.get_trading_days(start_date, end_date)
Prep ==
    /\ pc = "prep"
    /\ total_tasks' = TotalTasks(config.report_types, config.query_types)
    /\ current_task' = 0
    /\ IF Member("daily", config.report_types)
       THEN LET r == get_trading_days(config.start_date, config.end_date)
            IN  IF r.raised
                THEN /\ AccountError
                     /\ UNCHANGED <<gran, periods, qi>>
                ELSE /\ gran' = "daily"
                     /\ periods' = r.value
                     /\ qi' = 1
                     /\ emitted' = << >>
                     /\ pc' = "q_head"
                     /\ UNCHANGED failedAccts
       ELSE /\ emitted' = << >>
            /\ pc' = "m_prep"
            /\ UNCHANGED <<gran, periods, qi, failedAccts>>
    /\ posted' = << >>
    /\ UNCHANGED <<inputVars, driverVars, lastPercent,
                   guiVars, idx, loginVars, sessionVars, pi,
                   loginHistory, calls, authenticated, loggedOut,
                   dlAfterCancel, raised, begun>>

\* if '月报' in report_types:
\* months = crawler._generate_months_first_day(start_date, end_date)
MonthPrep ==
    /\ pc = "m_prep"
    /\ IF Member("monthly", config.report_types)
       THEN LET r == generate_months_first_day(config.start_date,
                                               config.end_date)
            IN  IF r.raised
                THEN /\ AccountError
                     /\ UNCHANGED <<gran, periods, qi>>
                ELSE /\ gran' = "monthly"
                     /\ periods' = r.value
                     /\ qi' = 1
                     /\ emitted' = << >>
                     /\ pc' = "q_head"
                     /\ UNCHANGED failedAccts
       ELSE /\ emitted' = << >>
            /\ pc' = "logout"
            /\ UNCHANGED <<gran, periods, qi, failedAccts>>
    /\ posted' = << >>
    /\ UNCHANGED <<inputVars, driverVars, lastPercent,
                   guiVars, idx, loginVars, sessionVars, pi,
                   current_task, total_tasks, loginHistory, calls,
                   authenticated, loggedOut, dlAfterCancel, raised, begun>>

\* for query_type in query_types: if self.cancelled: break
QueryHead ==
    /\ pc = "q_head"
    /\ IF qi <= Len(config.query_types) /\ ~cancelled
       THEN /\ pi' = 1
            /\ pc' = "p_head"
       ELSE /\ pc' = IF gran = "daily" THEN "m_prep" ELSE "logout"
            /\ UNCHANGED pi
    /\ emitted' = << >>
    /\ posted' = << >>
    /\ UNCHANGED <<inputVars, driverVars, lastPercent,
                   guiVars, idx, loginVars, sessionVars, gran,
                   periods, qi, current_task, total_tasks, loginHistory,
                   calls, authenticated, loggedOut, dlAfterCancel, raised,
                   batchHistory>>

\* The pre-task check without its look at the flag.
TaskAllowed_NoCancelCheck == pi <= Len(periods)

\* The pre-task check stopping one period early.
TaskAllowed_SkipsLast == pi < Len(periods) /\ ~cancelled

\* The pre-task check: for ... in enumerate(...): if self.cancelled: break
TaskAllowed == pi <= Len(periods) /\ ~cancelled

\* for day_idx, date in enumerate(trading_days): if self.cancelled: break;
\* after the loop: current_task += 1
PeriodHead ==
    /\ pc = "p_head"
    /\ IF TaskAllowed
       THEN /\ pc' = "call"
            /\ UNCHANGED <<qi, current_task>>
       ELSE /\ current_task' = current_task + 1
            /\ qi' = qi + 1
            /\ pc' = "q_head"
    /\ emitted' = << >>
    /\ posted' = << >>
    /\ UNCHANGED <<inputVars, driverVars, lastPercent,
                   guiVars, idx, loginVars, sessionVars, gran,
                   periods, pi, total_tasks, loginHistory, calls,
                   authenticated, loggedOut, dlAfterCancel, raised,
                   batchHistory>>

\* The check without its look at the stored token.
check_args_NoTokenCheck(tok, query_type) == query_type \in query_type_dict

\* CFMMCCrawler._check_args
check_args(tok, query_type) == tok # None /\ query_type \in query_type_dict

\* What the first half of get_daily_data / get_monthly_data can meet:
\* os.makedirs raising, the POST not delivered, the POST delivered and its
\* response lost (timeout=5), a response without a token, a response whose
\* token input has an empty value, a response with a token.
SelectOutcomes ==
    {"mkdir_fail", "post_unsent", "post_timeout", "page_no_token",
     "page_empty_token", "ok"}

\* What _download_file can meet.
ExportOutcomes == {"ok", "get_fail", "write_fail"}

Task(g, q, p) == [gran |-> g, query_type |-> q, period |-> p]

\* A task's failure ending the loop over the periods.
TaskError_Break ==
    /\ emitted' = <<Event("error")>>
    /\ pi' = Len(periods) + 1
    /\ pc' = "p_head"

\* except Exception as e: self.error_occurred.emit(...) in a task loop.
TaskError ==
    /\ emitted' = <<Event("error")>>
    /\ pi' = pi + 1
    /\ pc' = "p_head"

\* "org.apache.struts.taglib.html.TOKEN": self.token
PostedToken(tok) == tok

\* get_daily_data / get_monthly_data up to self.token = self._get_token(...)
Call ==
    /\ pc = "call"
    /\ calls' = Append(calls, Task(gran, config.query_types[qi], periods[pi]))
    /\ dlAfterCancel' = IF cancelled THEN dlAfterCancel + 1 ELSE dlAfterCancel
    /\ IF ~check_args(crawler_token, config.query_types[qi])
       THEN /\ TaskError
            /\ raised' = raised + 1
            /\ posted' = << >>
            /\ UNCHANGED sessionVars
       ELSE \E o \in SelectOutcomes :
            \/ /\ o = "mkdir_fail"
               /\ TaskError
               /\ raised' = raised + 1
               /\ posted' = << >>
               /\ UNCHANGED sessionVars
            \/ /\ o # "mkdir_fail"
               /\ posted' = <<[sent |-> PostedToken(crawler_token),
                               valid |-> portalToken,
                               returned |-> lastReturned]>>
               /\ \/ /\ o \in {"post_unsent", "page_no_token"}
                     /\ TaskError
                     /\ raised' = raised + 1
                     /\ UNCHANGED sessionVars
                  \/ /\ o = "post_timeout"
                     /\ TaskError
                     /\ raised' = raised + 1
                     /\ portalToken' = IF crawler_token = portalToken
                                       THEN portalToken + 1 ELSE portalToken
                     /\ UNCHANGED <<crawler_token, crawler_ss, lastReturned>>
                  \/ /\ o \in {"ok", "page_empty_token"}
                     /\ crawler_token = portalToken
                     /\ portalToken' = portalToken + 1
                     /\ crawler_token' =
                            IF o = "ok" THEN portalToken + 1 ELSE None
                     /\ lastReturned' =
                            IF o = "ok" THEN portalToken + 1 ELSE None
                     /\ emitted' = << >>
                     /\ pc' = "export"
                     /\ UNCHANGED <<crawler_ss, pi, raised>>
    /\ UNCHANGED <<inputVars, driverVars, lastPercent,
                   guiVars, idx, loginVars, gran, periods, qi,
                   current_task, total_tasks, loginHistory, authenticated,
                   loggedOut, batchHistory>>

\* The formula without its division by total_tasks.
TaskPercent_OfOneTask(task, i, total, ntasks) ==
    (task * 100 * total + i * 100) \div total

\* The whole percents q for which the float q / 100 * 100 is below q (the
\* quotient q / 100 is rounded down and the product is not rounded back):
\* int() of it is q - 1.  Added to 100 or more, the float sum is exact again.
RoundsBelow == {29, 57, 58}

\* int((current_task * 100 + (i + 1) / total * 100) / total_tasks), in
\* float arithmetic: the floor of the exact quotient, but one less where the
\* exact quotient is whole and the float (i + 1) / total * 100 is below its
\* exact value with nothing added to it.
TaskPercent(task, i, total, ntasks) ==
    LET num == task * 100 * total + i * 100
        den == total * ntasks
    IN  IF /\ task = 0
           /\ (i * 100) % total = 0
           /\ (i * 100) \div total \in RoundsBelow
           /\ num % den = 0
        THEN num \div den - 1
        ELSE num \div den

\* self._download_file(...); self.progress_updated.emit(...)
Export ==
    /\ pc = "export"
    /\ \E o \in ExportOutcomes :
        IF o = "ok"
        THEN /\ emitted' = <<EventWith("progress",
                               TaskPercent(current_task, pi, Len(periods),
                                           total_tasks))>>
             /\ lastPercent' = <<TaskPercent(current_task, pi, Len(periods),
                                             total_tasks)>>
             /\ pi' = pi + 1
             /\ pc' = "p_head"
             /\ UNCHANGED raised
        ELSE /\ TaskError
             /\ raised' = raised + 1
             /\ UNCHANGED lastPercent
    /\ posted' = << >>
    /\ UNCHANGED <<inputVars, driverVars, guiVars, idx, loginVars, sessionVars, gran,
                   periods, qi, current_task, total_tasks, loginHistory,
                   calls, authenticated, loggedOut, dlAfterCancel,
                   batchHistory>>

\* int((idx + 1) / total_accounts * 100), idx 0-based in the source, in
\* float arithmetic.
AccountPercent(i, total_accounts) ==
    IF /\ (i * 100) % total_accounts = 0
       /\ (i * 100) \div total_accounts \in RoundsBelow
    THEN (i * 100) \div total_accounts - 1
    ELSE (i * 100) \div total_accounts

\* What the logout POST can do.
LogoutOutcomes == {"ok", "fail"}

\* crawler.logout(); self.progress_updated.emit(account_progress, ...)
Logout ==
    /\ pc = "logout"
    /\ loggedOut' = TRUE
    /\ \E o \in LogoutOutcomes :
        IF crawler_token # None /\ o = "fail"
        THEN /\ AccountError
             /\ UNCHANGED <<crawler_token, lastPercent>>
        ELSE /\ crawler_token' = None
             /\ emitted' = <<EventWith("progress",
                               AccountPercent(idx, Len(accounts)))>>
             /\ lastPercent' = <<AccountPercent(idx, Len(accounts))>>
             /\ pc' = "acct_check"
             /\ UNCHANGED failedAccts
    /\ posted' = << >>
    /\ UNCHANGED <<inputVars, driverVars, guiVars, idx, loginVars, crawler_ss,
                   portalToken, lastReturned, taskVars, loginHistory, calls,
                   authenticated, dlAfterCancel, raised, begun>>

\* run() returns after self.finished.emit(): the thread is no longer
\* running.
Return ==
    /\ pc = "done"
    /\ pc' = "returned"
    /\ UNCHANGED <<inputVars, driverVars, lastPercent, guiVars, idx,
                   loginVars, sessionVars, taskVars, emitted, posted,
                   loginHistory, calls, authenticated, loggedOut,
                   dlAfterCancel, raised, batchHistory>>

(* ------------------------------------------------------------ the system *)

Worker ==
    \/ AcctCheck
    \/ LoopHead
    \/ GetLoginPage
    \/ Login
    \/ WaitCaptcha
    \/ AfterWait
    \/ TakeCode
    \/ PostLogin
    \/ Prep
    \/ MonthPrep
    \/ QueryHead
    \/ PeriodHead
    \/ Call
    \/ Export
    \/ Logout
    \/ Return

Next ==
    \/ Worker
    \/ CancelDownload
    \/ SetCaptcha
    \/ RejectCaptcha

Spec == Init /\ [][Next]_vars

\* run() is a thread of its own: a step it can take, it takes.  (Its
\* network calls are taken to return or raise.)
FairSpec == Spec /\ WF_vars(Worker)

\* show_captcha_dialog runs the dialog modally (exec_): the operator
\* closes it, by accepting or by rejecting.
AnsweredSpec == FairSpec /\ WF_vars(SetCaptcha \/ RejectCaptcha)

(* ------------------------------------------- a client driven directly *)

\* dt.datetime.strptime(s, '%Y%m%d') of a valid date string.
strptime(s) == Date(YearOf(s), MonthOf(s), DayOf(s))

\* The date strings get_trading_days is called with: around the new year
\* 2023/24, around the leap day, and the last days dt.date can hold.
ProbeDays ==
    {20231229, 20231231, 20240101, 20240105, 20240107, 20240108,
     20240226, 20240229, 20240301, 99991229, 99991230, 99991231}

\* The longest range of days enumerated.
MaxSpanDays == 14

ProbeDayRanges ==
    {r \in ProbeDays \X ProbeDays :
        Ordinal(strptime(r[2])) - Ordinal(strptime(r[1])) <= MaxSpanDays}

\* The date strings _generate_months_first_day is called with.
ProbeMonthDates ==
    {20231215, 20240101, 20240115, 20240131, 20240229, 20240301, 20250101,
     99991130, 99991201, 99991231}

\* The longest range of months enumerated, in calendar years between its
\* ends.
MaxSpanYears == 1

ProbeMonthRanges ==
    {r \in ProbeMonthDates \X ProbeMonthDates :
        YearOf(r[2]) - YearOf(r[1]) <= MaxSpanYears}

\* The thread's variables as DownloadThread.__init__ leaves them, for an
\* empty account list and one configuration (a client driven directly reads
\* neither).
RunIdle ==
    /\ accounts = << >>
    /\ config \in {c \in Configs : c.start_date = 20240105
                                   /\ Len(c.report_types) = 2
                                   /\ Len(c.query_types) = 2}
    /\ cancelled = FALSE
    /\ captcha_code = NoText
    /\ dialogOpen = FALSE
    /\ pc = "acct_check"
    /\ idx = 0
    /\ login_success = FALSE
    /\ retry_count = 0
    /\ token = None
    /\ captcha_image = 0
    /\ verification_code = NoText
    /\ portalToken = None
    /\ gran = "daily"
    /\ periods = << >>
    /\ qi = 1
    /\ pi = 1
    /\ current_task = 0
    /\ total_tasks = 0
    /\ emitted = << >>
    /\ posted = << >>
    /\ nBegin = 0
    /\ nLogin = 0
    /\ lastLoginCode = NoText
    /\ loginCall = NoLoginCall
    /\ nLoginFailed = 0
    /\ calls = << >>
    /\ authenticated = FALSE
    /\ loggedOut = FALSE
    /\ loginExit = "none"
    /\ lastReturned = None
    /\ cancelIdx = 0
    /\ authAtCancel = FALSE
    /\ dlAfterCancel = 0
    /\ raised = 0
    /\ begun = {}
    /\ failedAccts = {}
    /\ lastPercent = << >>
    /\ ManagerInit

threadVars ==
    <<accounts, config, cancelled, captcha_code, dialogOpen, pc, idx,
      login_success, retry_count, token, captcha_image, verification_code,
      portalToken, gran, periods, qi, pi, current_task, total_tasks, emitted,
      posted, nBegin, nLogin, lastLoginCode, loginCall, nLoginFailed, calls,
      authenticated, loggedOut, loginExit, lastReturned, cancelIdx,
      authAtCancel, dlAfterCancel, raised, begun, failedAccts, lastPercent>>

\* What a caller of a client's methods leaves alone.
runVars == <<threadVars, managerVars>>

\* crawler.get_trading_days(start_date, end_date), called directly.
Call_get_trading_days ==
    /\ client # NoClient
    /\ \E r \in ProbeDayRanges :
        LET res == get_trading_days(r[1], r[2])
        IN  probe' = CallRecord("get_trading_days", r, << >>,
                                IF res.raised THEN "OverflowError"
                                ELSE "returned",
                                << >>, crawler_token, res.value, << >>)
    /\ UNCHANGED <<runVars, client, crawler_token, crawler_ss>>

\* CFMMCCrawler._generate_months_first_day(start_date, end_date), called
\* directly.
Call_generate_months_first_day ==
    /\ client # NoClient
    /\ \E r \in ProbeMonthRanges :
        LET res == generate_months_first_day(r[1], r[2])
        IN  probe' = CallRecord("_generate_months_first_day", r, << >>,
                                IF res.raised THEN "ValueError"
                                ELSE "returned",
                                << >>, crawler_token, res.value, << >>)
    /\ UNCHANGED <<runVars, client, crawler_token, crawler_ss>>

\* Texts are sequences of characters.  The names an account can carry.
ProbeDivisions == {<<"A">>, <<"A", "-", "B">>, <<"/", "A">>}

ProbeCompanies == {<<"C">>, <<"B", "-", "C">>}

\* The account numbers of the accounts a client is built for.
MaxAccountNo == 2

ProbeClients ==
    {[output_dir |-> <<"o">>, division_name |-> d, company_short |-> c,
      account_no |-> n] :
        d \in ProbeDivisions, c \in ProbeCompanies, n \in 1..MaxAccountNo}

\* The dt.date values the download methods are called with.
TaskDates == {Date(2024, 1, 1), Date(2024, 1, 5), Date(2024, 2, 1)}

\* The query_type arguments: the two keys of query_type_dict and another.
ProbeQueryTypes == query_type_dict \cup {"other"}

\* The tokens a response page can carry.
MaxToken == 2

Digit(k) == <<"0", "1", "2", "3", "4", "5", "6", "7", "8", "9">>[k + 1]

\* strftime('%Y') of a four-digit year, strftime('%m'), strftime('%d')
Digits4(y) ==
    <<Digit(y \div 1000), Digit((y \div 100) % 10), Digit((y \div 10) % 10),
      Digit(y % 10)>>

Digits2(n) == <<Digit(n \div 10), Digit(n % 10)>>

\* date.strftime('%Y-%m-%d')
strftime_ymd(d) ==
    Digits4(d.y) \o <<"-">> \o Digits2(d.m) \o <<"-">> \o Digits2(d.d)

\* month.strftime('%Y-%m')
strftime_ym(d) == Digits4(d.y) \o <<"-">> \o Digits2(d.m)

\* os.path.join(a, b) (posixpath): an absolute b replaces a; an empty a, or
\* one that ends with the separator, takes no separator.
path_join(a, b) ==
    IF b # << >> /\ Head(b) = "/" THEN b
    ELSE IF a = << >> \/ a[Len(a)] = "/" THEN a \o b
    ELSE a \o <<"/">> \o b

\* f"{self.division_name}-{self.company_short}_{stamp}.xls"
file_name(c, stamp) ==
    c.division_name \o <<"-">> \o c.company_short \o <<"_">> \o stamp
    \o <<".xls">>

\* get_daily_data: full_path
daily_full_path(c, date, query_type) ==
    path_join(path_join(path_join(c.output_dir, c.division_name),
                        <<query_type>>),
              file_name(c, strftime_ymd(date)))

\* get_monthly_data: full_path
monthly_full_path(c, month, query_type) ==
    path_join(path_join(path_join(c.output_dir, <<"monthly">>),
                        <<query_type>>),
              file_name(c, strftime_ym(month)))

\* CFMMCCrawler(division_name, company_short, account_no, password,
\* output_dir, tushare_token): self._ss = None; self.token = None
Construct ==
    /\ client # NoClient
    /\ \E c \in ProbeClients :
        /\ client' = c
        /\ probe' = CallRecord("__init__", <<c.account_no>>, << >>,
                               "returned", << >>, crawler_token, << >>,
                               << >>)
    /\ crawler_token' = None
    /\ crawler_ss' = << >>
    /\ UNCHANGED runVars

\* What a page can hold where the form's token is looked up
\* (form.input['value']): no <form>, a form without an <input>, an input
\* without a value, or an input with a value.
FormKinds == {"no_form", "no_input", "no_value", "token"}

\* The pages the portal can answer with: with or without the text
\* '验证码错误', with or without the text '请勿在公用电脑上记录您的查询密码',
\* and the form; the token is the input's value, 0 when the value is empty
\* (and where there is no value).
LoginPages ==
    {p \in [captcha : BOOLEAN, cred : BOOLEAN, form : FormKinds,
            token : (0..MaxToken)] :
        p.form # "token" => p.token = None}

\* A page with neither text.
Page(form, t) ==
    [captcha |-> FALSE, cred |-> FALSE, form |-> form, token |-> t]

\* BeautifulSoup(page).form.input['value']: how the lookup ends.
get_token_result(page) ==
    IF page.form = "no_form" THEN "AttributeError"
    ELSE IF page.form = "no_input" THEN "TypeError"
    ELSE IF page.form = "no_value" THEN "KeyError"
    ELSE "returned"

\* Most sessions one client object opens.
MaxSessions == 2

\* self._ss = session(): the client's next session.
next_session ==
    <<client.account_no,
      IF crawler_ss = << >> THEN 1 ELSE crawler_ss[2] + 1>>

\* What get_login_page can meet: the first GET raising, a login page, a login
\* page whose form has no <img>, one whose <img> has no src, the second GET
\* raising.
ClientLoginPageOutcomes ==
    {"get_fail", "page", "no_img", "no_src", "captcha_fail"}

\* get_login_page, called directly: a new session, two GETs, self.token
\* left alone.
Call_get_login_page ==
    /\ client # NoClient
    /\ IF crawler_ss = << >> THEN TRUE ELSE crawler_ss[2] < MaxSessions
    /\ crawler_ss' = next_session
    /\ \E o \in ClientLoginPageOutcomes, form \in FormKinds,
          t \in 0..MaxToken :
        /\ form # "token" => t = None
        /\ o # "page" => form = "token"
        /\ o = "get_fail" => t = None
        /\ probe' =
            IF o = "get_fail"
            THEN CallRecord("get_login_page", << >>, << >>,
                            "RequestException", <<"GET login">>,
                            crawler_token, << >>, << >>)
            ELSE IF o = "page" /\ form # "token"
            THEN CallRecord("get_login_page", << >>, Page(form, t),
                            get_token_result(Page(form, t)),
                            <<"GET login">>, crawler_token, << >>, << >>)
            ELSE IF o = "no_img"
            THEN CallRecord("get_login_page", << >>, Page(form, t),
                            "TypeError", <<"GET login">>, crawler_token,
                            << >>, << >>)
            ELSE IF o = "no_src"
            THEN CallRecord("get_login_page", << >>, Page(form, t),
                            "KeyError", <<"GET login">>, crawler_token,
                            << >>, << >>)
            ELSE IF o = "captcha_fail"
            THEN CallRecord("get_login_page", << >>, Page(form, t),
                            "RequestException",
                            <<"GET login", "GET captcha">>, crawler_token,
                            << >>, << >>)
            ELSE CallRecord("get_login_page", << >>, Page(form, t),
                            "returned", <<"GET login", "GET captcha">>,
                            crawler_token, <<t>>, << >>)
    /\ UNCHANGED <<runVars, client, crawler_token>>

\* The two checks of login in the other order.
login_result_CredentialsFirst(page) ==
    IF page.cred THEN "UserNamePasswordError"
    ELSE IF page.captcha THEN "VerificationCodeError"
    ELSE get_token_result(page)

\* login, after the POST: the two marker checks, then _get_token.
login_result(page) ==
    IF page.captcha THEN "VerificationCodeError"
    ELSE IF page.cred THEN "UserNamePasswordError"
    ELSE get_token_result(page)

\* get_daily_data, get_monthly_data:
\* post_data["org.apache.struts.taglib.html.TOKEN"] is self.token.
select_post_data(tok) == <<tok>>

\* logout: self._ss.post(self.logout_url), a POST with no form data.
logout_post_data == << >>

\* crawler.login(verification_code, token), called directly.
Call_login ==
    /\ client # NoClient
    /\ \E t \in 1..MaxToken :
        LET args == <<Text(OcrText), t>>
        IN  IF crawler_ss = << >>
            THEN /\ probe' = CallRecord("login", args, << >>,
                                        "AttributeError", << >>,
                                        crawler_token, << >>, << >>)
                 /\ UNCHANGED crawler_token
            ELSE \/ /\ probe' = CallRecord("login", args, << >>,
                                           "RequestException",
                                           <<"POST login">>, crawler_token,
                                           << >>, login_post_data(t))
                    /\ UNCHANGED crawler_token
                 \/ \E page \in LoginPages :
                    /\ probe' = CallRecord("login", args, page,
                                           login_result(page),
                                           <<"POST login">>, crawler_token,
                                           << >>, login_post_data(t))
                    /\ crawler_token' =
                            IF login_result(page) = "returned"
                            THEN page.token ELSE crawler_token
    /\ UNCHANGED <<runVars, client, crawler_ss>>

\* crawler.logout(), called directly:
\* if self.token: self._ss.post(self.logout_url); self.token = None
Call_logout ==
    /\ client # NoClient
    /\ IF crawler_token # None
       THEN \E o \in LogoutOutcomes :
            IF o = "fail"
            THEN /\ probe' = CallRecord("logout", << >>, << >>,
                                        "RequestException",
                                        <<"POST logout">>, crawler_token,
                                        << >>, logout_post_data)
                 /\ UNCHANGED crawler_token
            ELSE /\ probe' = CallRecord("logout", << >>, << >>, "returned",
                                        <<"POST logout">>, crawler_token,
                                        << >>, logout_post_data)
                 /\ crawler_token' = None
       ELSE /\ probe' = CallRecord("logout", << >>, << >>, "returned",
                                   << >>, crawler_token, << >>, << >>)
            /\ crawler_token' = None
    /\ UNCHANGED <<runVars, client, crawler_ss>>

\* The task a download call serves: the account by its number, the report
\* type, the query type, and the day or the month.
TaskKey(c, g, date, query_type) ==
    [account_no |-> c.account_no, gran |-> g, query_type |-> query_type,
     period |-> IF g = "daily" THEN <<date.y, date.m, date.d>>
                ELSE <<date.y, date.m>>]

\* The assignment of the parameter-selection response's token, dropped.
stored_token_Discarded(stored, page) == stored

\* self.token = self._get_token(data_page.text), for a page that has a token.
stored_token(stored, page) == page.token

\* The body get_daily_data and get_monthly_data share: _check_args,
\* os.makedirs, the POST and self.token = self._get_token(...), then
\* _download_file (a GET, open(path, 'wb'), write) and return full_path.
\* The record's value is the path of the file opened for writing, whether
\* or not the write went through.
download(op, date, query_type, full_path) ==
    LET args == <<date, query_type>>
        fails(response, outcome, effects, sent) ==
            probe' = CallRecord(op, args, response, outcome, effects,
                                crawler_token, << >>, sent)
        page(t) == Page("token", t)
    IN  IF ~check_args(crawler_token, query_type)
        THEN /\ fails(<< >>,
                      IF crawler_token = None THEN "RuntimeError"
                      ELSE "ValueError",
                      << >>, << >>)
             /\ UNCHANGED crawler_token
        ELSE \E o \in SelectOutcomes :
            \/ /\ o = "mkdir_fail"
               /\ fails(<< >>, "OSError", <<"makedirs">>, << >>)
               /\ UNCHANGED crawler_token
            \/ /\ o \in {"post_unsent", "post_timeout"}
               /\ fails(<< >>, "RequestException",
                        <<"makedirs", "POST select">>,
                        select_post_data(crawler_token))
               /\ UNCHANGED crawler_token
            \/ /\ o = "page_no_token"
               /\ \E form \in FormKinds \ {"token"} :
                    fails(Page(form, None),
                          get_token_result(Page(form, None)),
                          <<"makedirs", "POST select">>,
                          select_post_data(crawler_token))
               /\ UNCHANGED crawler_token
            \/ /\ o \in {"ok", "page_empty_token"}
               /\ \E t \in 0..MaxToken, x \in ExportOutcomes :
                    /\ o = "ok" <=> t # None
                    /\ crawler_token' = stored_token(crawler_token, page(t))
                    /\ IF x = "get_fail"
                       THEN fails(page(t), "RequestException",
                                  <<"makedirs", "POST select",
                                    "GET export">>,
                                  select_post_data(crawler_token))
                       ELSE probe' =
                              CallRecord(op, args, page(t),
                                 IF x = "ok" THEN "returned" ELSE "OSError",
                                 <<"makedirs", "POST select", "GET export",
                                   "open">>,
                                 crawler_token, full_path,
                                 select_post_data(crawler_token))

\* crawler.get_daily_data(date, query_type), called directly.
Call_get_daily_data ==
    /\ client # NoClient
    /\ \E date \in TaskDates, q \in ProbeQueryTypes :
        download("get_daily_data", date, q,
                 daily_full_path(client, date, q))
    /\ UNCHANGED <<runVars, client, crawler_ss>>

\* crawler.get_monthly_data(month, query_type), called directly.
Call_get_monthly_data ==
    /\ client # NoClient
    /\ \E month \in TaskDates, q \in ProbeQueryTypes :
        download("get_monthly_data", month, q,
                 monthly_full_path(client, month, q))
    /\ UNCHANGED <<runVars, client, crawler_ss>>

ClientInit ==
    /\ RunIdle
    /\ client \in ProbeClients
    /\ crawler_token = None
    /\ crawler_ss = << >>
    /\ probe = NoCall

ClientNext ==
    \/ Construct
    \/ Call_get_login_page
    \/ Call_login
    \/ Call_logout
    \/ Call_get_daily_data
    \/ Call_get_monthly_data

\* Any caller of one client at a time: any sequence of calls.
ClientSpec == ClientInit /\ [][ClientNext]_vars

EnumNext ==
    \/ Call_get_trading_days
    \/ Call_generate_months_first_day

\* One client is enough: get_trading_days reads nothing of self, and
\* _generate_months_first_day is static.
EnumInit ==
    /\ ClientInit
    /\ client.division_name = <<"A">>
    /\ client.company_short = <<"C">>
    /\ client.account_no = 1

\* Any caller of the two enumerations.
EnumSpec == EnumInit /\ [][EnumNext]_vars

\* Every use of a CFMMCCrawler: by DownloadThread.run, or by a caller of
\* its methods.
CrawlerSpec == (Init \/ ClientInit) /\ [][Next \/ ClientNext]_vars

(* ------------------------------------------------- the AccountManager *)

\* Texts are sequences of characters.  The texts the dialogs are answered
\* with, for each field.
ManagerDivisions == {<<"a">>, <<"B">>}

ManagerCompanies == {<<"c">>}

ManagerAccountNos == {<<"1">>, <<"2">>}

ManagerPasswords == {<<"p">>}

\* The dict of an account.
Account(division_name, company_short, account_no, password) ==
    [division_name |-> division_name, company_short |-> company_short,
     account_no |-> account_no, password |-> password]

\* QInputDialog.getText: (text, ok).
DialogAnswers(texts) == [text : texts, ok : BOOLEAN]

\* The answers the four dialogs of add_account and of edit_account can
\* get, in order.
DialogFields ==
    <<DialogAnswers(ManagerDivisions \cup {<< >>}),
      DialogAnswers(ManagerCompanies),
      DialogAnswers(ManagerAccountNos),
      DialogAnswers(ManagerPasswords)>>

\* The answers to the dialogs a handler has shown: the first one, or the
\* first two, three or four.
DialogRuns ==
    UNION {{d \in [1..n -> UNION {DialogFields[i] : i \in 1..4}] :
                \A i \in 1..n : d[i] \in DialogFields[i]} : n \in 1..4}

\* The handler returns after the i-th dialog's answer a: add_account needs
\* the confirmation and, of the first three dialogs, a text.
add_returns(i, a) == ~a.ok \/ (i < 4 /\ a.text = << >>)

\* edit_account needs the confirmation only.
edit_returns(i, a) == ~a.ok

\* The dialogs d are the ones a handler shows, returns[i] telling whether it
\* returns after the i-th: it went on after each but the last, and shows
\* fewer than four only when it returns after the last.
Shown(d, returns) ==
    /\ \A i \in 1..(Len(d) - 1) : ~returns[i]
    /\ Len(d) < 4 => returns[Len(d)]

\* str.lower, on the characters used.
LowerChar(c) ==
    IF c = "A" THEN "a" ELSE IF c = "B" THEN "b" ELSE IF c = "C" THEN "c"
    ELSE c

lower(text) == [i \in 1..Len(text) |-> LowerChar(text[i])]

\* str.strip, of spaces.
RECURSIVE strip(_)
strip(text) ==
    IF text = << >> THEN text
    ELSE IF Head(text) = " " THEN strip(Tail(text))
    ELSE IF text[Len(text)] = " " THEN strip(SubSeq(text, 1, Len(text) - 1))
    ELSE text

\* a in b, of two strings.
Contains(a, b) ==
    \E i \in 0..(Len(b) - Len(a)) : SubSeq(b, i + 1, i + Len(a)) = a

\* What the search box can hold.
SearchTexts == {<< >>, <<" ">>, <<"A">>, <<"b">>, <<"1">>, <<" ", "2">>}

\* AccountManager.filter_accounts; the table is loaded from
\* current_accounts.
filter_accounts ==
    /\ \E text \in SearchTexts :
        LET search_text == lower(strip(text))
            match(acc) ==
                \/ Contains(search_text, lower(acc.division_name))
                \/ Contains(search_text, lower(acc.company_short))
                \/ Contains(search_text, lower(acc.account_no))
        IN  current_accounts' =
                IF search_text = << >> THEN original_accounts
                ELSE SelectSeq(original_accounts, match)
    /\ edited' = NoEdit
    /\ UNCHANGED <<original_accounts, deleted_stack, threadVars, client,
                   probe, crawler_token, crawler_ss>>

\* AccountManager.clear_search
clear_search ==
    /\ current_accounts' = original_accounts
    /\ edited' = NoEdit
    /\ UNCHANGED <<original_accounts, deleted_stack, threadVars, client,
                   probe, crawler_token, crawler_ss>>

\* AccountManager.add_account
add_account ==
    /\ Len(original_accounts) < MaxStored
    /\ \E d \in DialogRuns :
        /\ Shown(d, [i \in 1..Len(d) |-> add_returns(i, d[i])])
        /\ IF add_returns(Len(d), d[Len(d)])
           THEN UNCHANGED <<original_accounts, current_accounts>>
           ELSE LET new_account ==
                       Account(d[1].text, d[2].text, d[3].text, d[4].text)
                IN  /\ original_accounts' =
                           Append(original_accounts, new_account)
                    /\ current_accounts' =
                           Append(current_accounts, new_account)
    /\ edited' = NoEdit
    /\ UNCHANGED <<deleted_stack, threadVars, client, probe, crawler_token,
                   crawler_ss>>

\* The loop over a list in edit_account: the first record whose account_no
\* is the account's is replaced by the account.
ReplaceFirst(list, account) ==
    LET hits == {i \in 1..Len(list) :
                    list[i].account_no = account.account_no}
    IN  IF hits = {} THEN list
        ELSE [list EXCEPT ![CHOOSE i \in hits : \A j \in hits : i <= j]
                                = account]

\* AccountManager.edit_account: the row selected in the table (-1 when
\* none, and then no dialog is shown), the dialogs, the two loops.  The
\* table holds what load_accounts_to_table put there, the records of
\* current_accounts.
edit_account ==
    \/ /\ edited' = [row |-> -1, before |-> original_accounts,
                      shown |-> current_accounts, new |-> << >>,
                      confirmed |-> FALSE, called |-> TRUE]
       /\ UNCHANGED <<original_accounts, current_accounts, deleted_stack,
                      threadVars, client, probe, crawler_token, crawler_ss>>
    \/ \E selected_row \in 0..(Len(current_accounts) - 1), d \in DialogRuns :
        LET confirmed == ~edit_returns(Len(d), d[Len(d)])
            account == Account(d[1].text, d[2].text, d[3].text, d[4].text)
        IN  /\ Shown(d, [i \in 1..Len(d) |-> edit_returns(i, d[i])])
            /\ edited' = [row |-> selected_row,
                          before |-> original_accounts,
                          shown |-> current_accounts,
                          new |-> IF confirmed THEN <<account>> ELSE << >>,
                          confirmed |-> confirmed, called |-> TRUE]
            /\ IF confirmed
               THEN /\ original_accounts' =
                            ReplaceFirst(original_accounts, account)
                    /\ current_accounts' =
                            ReplaceFirst(current_accounts, account)
               ELSE UNCHANGED <<original_accounts, current_accounts>>
            /\ UNCHANGED <<deleted_stack, threadVars, client, probe,
                           crawler_token, crawler_ss>>

\* The account numbers of a list of accounts.
AccountNosOf(list) == {list[i].account_no : i \in 1..Len(list)}

\* [acc for acc in list if acc['account_no'] not in account_nos]
Without(list, account_nos) ==
    SelectSeq(list, LAMBDA acc : acc.account_no \notin account_nos)

\* AccountManager.get_selected_accounts: the records of the rows whose box
\* is checked, in row order.
RECURSIVE selected_accounts(_, _)
selected_accounts(list, checked) ==
    IF list = << >> THEN << >>
    ELSE selected_accounts(SubSeq(list, 1, Len(list) - 1), checked)
         \o (IF Len(list) \in checked THEN <<list[Len(list)]>> ELSE << >>)

\* AccountManager.delete_account: the checked rows, the confirmation
\* question; the selection is pushed on the undo stack before the question
\* and popped again when the answer is No.
delete_account ==
    /\ \E checked \in SUBSET (1..Len(current_accounts)), yes \in BOOLEAN :
        LET selected == selected_accounts(current_accounts, checked)
        IN  IF selected = << >> \/ ~yes
            THEN UNCHANGED <<original_accounts, current_accounts,
                             deleted_stack>>
            ELSE /\ Len(deleted_stack) < MaxUndo
                 /\ deleted_stack' = Append(deleted_stack, selected)
                 /\ original_accounts' =
                        Without(original_accounts, AccountNosOf(selected))
                 /\ current_accounts' =
                        Without(current_accounts, AccountNosOf(selected))
    /\ edited' = NoEdit
    /\ UNCHANGED <<threadVars, client, probe, crawler_token, crawler_ss>>

\* The loop of undo_delete: an account whose number no stored account has
\* is appended.
RECURSIVE Restore(_, _)
Restore(list, deleted) ==
    IF deleted = << >> THEN list
    ELSE Restore(IF Head(deleted).account_no \in AccountNosOf(list)
                 THEN list ELSE Append(list, Head(deleted)),
                 Tail(deleted))

\* The accounts the loop of undo_delete appends, in order.
Restored(original, deleted) ==
    SubSeq(Restore(original, deleted), Len(original) + 1,
           Len(Restore(original, deleted)))

\* AccountManager.undo_delete
undo_delete ==
    /\ IF deleted_stack = << >>
       THEN UNCHANGED <<original_accounts, current_accounts, deleted_stack>>
       ELSE LET last_deleted == deleted_stack[Len(deleted_stack)]
            IN  /\ deleted_stack' =
                        SubSeq(deleted_stack, 1, Len(deleted_stack) - 1)
                /\ original_accounts' =
                        Restore(original_accounts, last_deleted)
                /\ current_accounts' =
                        current_accounts
                        \o Restored(original_accounts, last_deleted)
    /\ edited' = NoEdit
    /\ UNCHANGED <<threadVars, client, probe, crawler_token, crawler_ss>>

ManagerNext ==
    \/ add_account
    \/ edit_account
    \/ delete_account
    \/ undo_delete
    \/ filter_accounts
    \/ clear_search

\* The AccountManager as constructed: no download running, no client
\* driven.
ManagerStart ==
    /\ RunIdle
    /\ client = NoClient
    /\ crawler_token = None
    /\ crawler_ss = << >>
    /\ probe = NoCall

\* The AccountManager under any sequence of its handlers.
ManagerSpec == ManagerStart /\ [][ManagerNext]_vars

(* ------------------------------------------------------------ properties *)

\* run() has emitted finished: it is about to return, or has returned.
RunOver == pc \in {"done", "returned"}

\* C1: the token a parameter-selection POST carries is the token of the
\* latest token-bearing response the client received, and it is the token
\* the portal currently holds for the session (never one the portal has
\* already replaced).
C1_TokenContinuity ==
    posted # << >> =>
        /\ posted[1].sent = posted[1].returned
        /\ posted[1].sent = posted[1].valid

InLoginLoop == pc \in {"loop_head", "get_login_page", "login"}

OutAuthenticated == loginExit = "success" /\ login_success

OutEscalated ==
    loginExit = "escalated" /\ ~login_success /\ retry_count >= max_retry

OutAbandoned ==
    loginExit \in {"credentials", "other"} /\ ~login_success
    /\ nLoginFailed = 1

OutCancelled == loginExit = "cancelled" /\ ~login_success /\ cancelled

LoginOutcomes ==
    {o \in {"authenticated", "escalated", "abandoned", "cancelled"} :
        \/ o = "authenticated" /\ OutAuthenticated
        \/ o = "escalated" /\ OutEscalated
        \/ o = "abandoned" /\ OutAbandoned
        \/ o = "cancelled" /\ OutCancelled}

C2_Bounded ==
    /\ nLogin <= max_retry
    /\ nBegin <= max_retry
    /\ pc = "post_login" => Cardinality(LoginOutcomes) = 1
    /\ authenticated => login_success /\ loginExit = "success"

\* C2: for every account run() makes at most max_retry login calls (and as
\* many get_login_page calls), every pass through the login loop ends at the
\* post-login check or at the wait for the operator, the loop is left in
\* exactly one of the outcomes authenticated, escalated, abandoned,
\* cancelled, and an accepted login leaves the account authenticated.
C2_LoginLoopEnds ==
    /\ []C2_Bounded
    /\ InLoginLoop ~> (pc \in {"post_login", "wait_captcha"})

\* The portal accepts the last attempt the bound allows.
C2_Witness ==
    /\ pc = "post_login"
    /\ OutAuthenticated
    /\ nLogin = max_retry
    /\ retry_count = max_retry - 1

\* C3: once the operator's text has been taken from set_captcha, and before
\* the account's outcome is decided at the post-login check, exactly one
\* more login call has been made and it carried that text.
C3_HumanRetryOnce ==
    (pc = "post_login" /\ loginExit = "escalated") =>
        /\ nLogin = max_retry + 1
        /\ lastLoginCode = verification_code

\* C4: without cancellation, an account that was authenticated has had
\* logout() invoked when run() turns to the next account or to the
\* completion signal.
C4_LogoutAlways ==
    (pc = "acct_check" /\ authenticated /\ ~cancelled) => loggedOut

C5_Bounded ==
    /\ dlAfterCancel <= 1
    /\ cancelled => idx = cancelIdx

C5_Step ==
    /\ (cancelled /\ pc = "p_head") => pc' # "call"
    /\ cancelled => begun' \subseteq begun \cup {cancelIdx}
    /\ (cancelled /\ calls' # calls) => idx' = cancelIdx
    /\ (pc = "call" /\ pc' # pc) =>
            /\ Len(calls') = Len(calls) + 1
            /\ pc' \in {"export", "p_head"}
    /\ (pc = "export" /\ pc' # pc) =>
            /\ pc' = "p_head"
            /\ pi' = pi + 1
            /\ Len(emitted') = 1

\* C5: after cancel() at most one more download operation starts, and only
\* one whose pre-task check had passed before the flag was set; run() never
\* moves to a later account, so no later account begins login or starts a
\* download; a download call in flight runs to its end whatever the flag.
C5_CancelHaltsTasks == []C5_Bounded /\ [][C5_Step]_vars

\* cancel() between a pre-task check and its call, with an account left.
C5_Witness ==
    /\ RunOver
    /\ cancelled
    /\ dlAfterCancel = 1
    /\ idx < Len(accounts)

\* C6: when cancel() was called while the account in progress was
\* authenticated, logout() has been invoked for it by the time the
\* completion signal is emitted.
C6_CancelStillLogsOut ==
    (RunOver /\ cancelled /\ authAtCancel) => loggedOut

\* C7, a run that has ended: without cancellation, get_login_page was
\* called for every account of the list, whatever failed on the accounts
\* before.
C7_Ended == (RunOver /\ ~cancelled) => begun = 1..Len(accounts)

\* C7: absent cancellation, no failure on an account (credentials rejected,
\* a failure of the portal or the network during login, the CAPTCHA retries
\* exhausted, an exception during the downloads) keeps a later account from
\* being attempted: in every run whose CAPTCHA dialogs the operator closes,
\* get_login_page is called for every account of the list unless cancel()
\* is called.
C7_AllAccountsAttempted ==
    []C7_Ended /\ <>(cancelled \/ begun = 1..Len(accounts))

C8_Terminal ==
    loginExit = "credentials" =>
        /\ nLoginFailed = 1
        /\ calls = << >>
        /\ ~login_success

C8_Step ==
    (loginExit = "credentials" /\ idx' = idx) =>
        /\ nBegin' = nBegin
        /\ nLogin' = nLogin
        /\ calls' = calls
        /\ nLoginFailed' = nLoginFailed
        /\ loginExit' = "credentials"

\* C8: once login has failed with UserNamePasswordError, exactly one
\* login_failed signal has been emitted for the account, and while run() is
\* at that account no further get_login_page, login or download call and no
\* further login_failed signal follows.
C8_CredentialRejectionTerminal == []C8_Terminal /\ [][C8_Step]_vars

\* The rejection came after an automatic retry; the run is over.
C8_Witness ==
    /\ RunOver
    /\ loginExit = "credentials"
    /\ nLogin >= 2

\* What an enumeration gave run(): its list, nothing when it raised.
EnumeratedPeriods(g) ==
    IF g = "daily"
    THEN get_trading_days(config.start_date, config.end_date).value
    ELSE generate_months_first_day(config.start_date, config.end_date).value

SelectedGranularities ==
    SelectSeq(<<"daily", "monthly">>,
              LAMBDA g : Member(g, config.report_types))

RECURSIVE ConcatAll(_)
ConcatAll(seqs) ==
    IF seqs = << >> THEN << >> ELSE Head(seqs) \o ConcatAll(Tail(seqs))

TasksOfQuery(g, q) ==
    [i \in 1..Len(EnumeratedPeriods(g)) |-> Task(g, q, EnumeratedPeriods(g)[i])]

TasksOfGranularity(g) ==
    ConcatAll([j \in 1..Len(config.query_types) |->
                    TasksOfQuery(g, config.query_types[j])])

\* Granularity, then query type, then period.
ExpectedCalls ==
    ConcatAll([k \in 1..Len(SelectedGranularities) |->
                    TasksOfGranularity(SelectedGranularities[k])])

\* run() is through with an authenticated account.
AccountOver ==
    \/ pc = "logout"
    \/ pc = "acct_check" /\ authenticated

C9_AllAttempted ==
    (AccountOver /\ ~cancelled) => Len(calls) = Len(ExpectedCalls)

C9_Step ==
    /\ raised' = raised + 1 =>
            /\ emitted' = <<Event("error")>>
            /\ pc' = "p_head"
            /\ pi' = pi + 1
    /\ (pc \in {"call", "export"} /\ pc' = "p_head" /\ raised' = raised) =>
            /\ Len(emitted') = 1
            /\ emitted'[1].kind = "progress"

\* C9: a download operation that raises yields exactly one error signal and
\* no progress signal (one that returns yields one progress signal), run()
\* goes on to the next period, and without cancellation every task of the
\* account's task set has been invoked when run() is through with it.
C9_TaskFailureIsolated == []C9_AllAttempted /\ [][C9_Step]_vars

\* A task has raised and a later one is about to be invoked.
C9_Witness ==
    /\ pc = "call"
    /\ raised >= 1
    /\ ~cancelled

IsPrefix(a, b) == Len(a) <= Len(b) /\ SubSeq(b, 1, Len(a)) = a

Ascending(ps) ==
    \A i, j \in 1..Len(ps) : i < j => DateLE(ps[i], ps[j]) /\ ps[i] # ps[j]

\* C10: without cancellation the download operations of an authenticated
\* account are, at every moment, the first ones of the list "selected report
\* types (daily before monthly) x query types (configured order) x
\* enumerated periods (ascending)", and all of that list, each task once,
\* when run() is through with the account.
C10_TaskSetAndOrder ==
    ~cancelled =>
        /\ IsPrefix(calls, ExpectedCalls)
        /\ AccountOver => calls = ExpectedCalls
        /\ Cardinality({calls[i] : i \in 1..Len(calls)}) = Len(calls)
        /\ \A g \in {"daily", "monthly"} : Ascending(EnumeratedPeriods(g))

\* Both report types, both query types, all six tasks invoked.
C10_Witness ==
    /\ pc = "logout"
    /\ ~cancelled
    /\ Len(config.report_types) = 2
    /\ Len(config.query_types) = 2
    /\ Len(calls) = 6

C11_Step ==
    \A i \in 1..Len(emitted') :
        (emitted'[i].kind = "progress" /\ lastPercent # << >>) =>
            emitted'[i].arg >= lastPercent[1]

\* C11: the percent of every progress signal of a run is at least the percent
\* of the progress signal before it.
C11_ProgressMonotone == [][C11_Step]_vars

\* The calendar dates from start to end, both included.
CalendarDates(start, end) ==
    {dd \in [y : start.y..end.y, m : 1..12, d : 1..31] :
        /\ ValidDate(dd.y, dd.m, dd.d)
        /\ DateLE(start, dd)
        /\ DateLE(dd, end)}

Elements(seq) == {seq[i] : i \in 1..Len(seq)}

\* C12: get_trading_days(start, end) returns, ascending and without
\* duplicates, exactly the dates from start to end (both included) that fall
\* on Monday to Friday, nothing when start is after end, and for 2024-01-01
\* to 2024-01-07 the five dates 2024-01-01 .. 2024-01-05.
C12_TradingDays ==
    probe.op = "get_trading_days" =>
        LET start == strptime(probe.args[1])
            end == strptime(probe.args[2])
        IN  /\ probe.outcome = "returned"
            /\ Ascending(probe.value)
            /\ Elements(probe.value) =
                    {d \in CalendarDates(start, end) : Weekday(d) < 5}
            /\ ~DateLE(start, end) => probe.value = << >>
            /\ probe.args = <<20240101, 20240107>> =>
                    probe.value = <<Date(2024, 1, 1), Date(2024, 1, 2),
                                    Date(2024, 1, 3), Date(2024, 1, 4),
                                    Date(2024, 1, 5)>>

\* The first days of the months from start's month to end's month.
FirstDays(start, end) ==
    {dd \in [y : start.y..end.y, m : 1..12, d : {1}] :
        /\ DateLE(Date(start.y, start.m, 1), dd)
        /\ DateLE(dd, Date(end.y, end.m, 1))}

\* C13: _generate_months_first_day(start, end) returns, ascending, exactly
\* the first day of every month from start's month to end's month (both
\* included, December followed by January of the next year), nothing when
\* end's month is before start's, and for 2024-01-15 to 2024-03-01 the list
\* 2024-01-01, 2024-02-01, 2024-03-01.
C13_MonthFirstDays ==
    probe.op = "_generate_months_first_day" =>
        LET start == strptime(probe.args[1])
            end == strptime(probe.args[2])
        IN  /\ probe.outcome = "returned"
            /\ Ascending(probe.value)
            /\ Elements(probe.value) = FirstDays(start, end)
            /\ probe.args = <<20240115, 20240301>> =>
                    probe.value = <<Date(2024, 1, 1), Date(2024, 2, 1),
                                    Date(2024, 3, 1)>>

DownloadOps == {"get_daily_data", "get_monthly_data"}

GranOf(op) == IF op = "get_daily_data" THEN "daily" ELSE "monthly"

\* The path a download for the task (c, g, date, query_type) writes to.
PathOf(c, g, date, query_type) ==
    IF g = "daily" THEN daily_full_path(c, date, query_type)
    ELSE monthly_full_path(c, date, query_type)

\* The latest call was a download that got as far as its file.
WroteFile == probe.op \in DownloadOps /\ probe.value # << >>

SameNames(c1, c2) ==
    /\ c1.output_dir = c2.output_dir
    /\ c1.division_name = c2.division_name
    /\ c1.company_short = c2.company_short

C14_Distinct ==
    WroteFile =>
        LET g == GranOf(probe.op)
            date == probe.args[1]
            q == probe.args[2]
        IN  /\ \A c2 \in ProbeClients :
                    SameNames(c2, client) =>
                        PathOf(c2, g, date, q) = probe.value
            /\ \A q2 \in query_type_dict \ {q} :
                    PathOf(client, g, date, q2) # probe.value
            /\ \A g2 \in {"daily", "monthly"} \ {g} :
                    \A q2 \in query_type_dict, d2 \in TaskDates :
                        PathOf(client, g2, d2, q2) # probe.value

C14_Step ==
    (/\ WroteFile
     /\ probe'.op = probe.op
     /\ probe'.args = probe.args
     /\ probe'.value # << >>
     /\ SameNames(client', client)) => probe'.value = probe.value

\* C14: the path of get_daily_data and of get_monthly_data depends on
\* nothing but output_dir, division_name, company_short, the period and the
\* query type: a call repeated with the same arguments gives the same path
\* whatever happened to the session in between; the two query types give
\* different paths, and a daily and a monthly report give different paths.
C14_PathDeterminism == []C14_Distinct /\ [][C14_Step]_vars

\* C15: the file of a download is the file of no other task: whatever
\* differs in the account (its number), the report type, the query type or
\* the period has a different path.
C15_PathsUnique ==
    WroteFile =>
        \A c2 \in ProbeClients, g2 \in {"daily", "monthly"},
           q2 \in query_type_dict, d2 \in TaskDates :
            TaskKey(c2, g2, d2, q2)
                    # TaskKey(client, GranOf(probe.op), probe.args[1],
                              probe.args[2])
                => PathOf(c2, g2, d2, q2) # probe.value

Finished == \E i \in 1..Len(emitted) : emitted[i].kind = "finished"

C16_Last ==
    /\ Finished <=> RunOver
    /\ Finished => emitted = <<Event("finished")>>

C16_Step == RunOver => (RunOver' /\ emitted' = emitted)

\* C16: every run emits the completion signal: once, as the run's last
\* signal (nothing is emitted with it or after it), and in every run whose
\* CAPTCHA dialogs the operator closes.
C16_CompletionOnceAndLast ==
    /\ []C16_Last
    /\ [][C16_Step]_vars
    /\ <>(RunOver)

C17_NoToken ==
    (probe.op \in DownloadOps /\ probe.before = None) =>
        /\ probe.outcome = "RuntimeError"
        /\ probe.effects = << >>
        /\ probe.value = << >>
        /\ crawler_token = None

C17_Step ==
    (pc \in {"call", "export"} /\ pc' # pc) =>
        /\ login_success
        /\ authenticated
        /\ loginExit = "success"
        /\ ~loggedOut

\* C17: get_daily_data and get_monthly_data on a client without a stored
\* token raise before any request is sent and before any directory or file
\* is made; and run() sends a parameter-selection POST or an export GET only
\* for an account whose latest login call returned and for which logout has
\* not been called.
C17_DownloadsOnlyAuthenticated == []C17_NoToken /\ [][C17_Step]_vars

\* A download was tried on a client that has a session and no token.
C17_Witness ==
    /\ probe.op = "get_monthly_data"
    /\ probe.before = None
    /\ probe.outcome = "RuntimeError"
    /\ probe.args[2] \in query_type_dict
    /\ crawler_ss # << >>

C18_Call ==
    probe.op = "logout" =>
        /\ probe.before # None => probe.effects = <<"POST logout">>
        /\ probe.before = None => probe.effects = << >>
        /\ crawler_token = None

C18_Step ==
    /\ probe'.op = "logout" =>
            /\ crawler_ss' = crawler_ss
            /\ crawler_token = None => crawler_token' = None
    /\ (probe.op = "logout" /\ probe'.op = "logout") =>
            /\ probe'.effects = << >>
            /\ crawler_token' = crawler_token

\* C18: logout() on a client with a stored token sends one logout POST and
\* clears the token; on a client without one it sends nothing and changes
\* nothing; so the second of two consecutive logout() calls sends nothing
\* and leaves the state the first one left.
C18_LogoutIdempotent == []C18_Call /\ [][C18_Step]_vars

\* The latest call was a login whose POST was answered with a page.
LoginAnswered ==
    /\ probe.op = "login"
    /\ probe.response # << >>

\* C19: login raises VerificationCodeError when the response holds the
\* CAPTCHA marker, otherwise UserNamePasswordError when it holds the
\* credentials marker, and otherwise stores the token of the response; a
\* login call that raises leaves self.token as it was, so a new client has
\* no token after a failed login.
C19_LoginClassified ==
    /\ LoginAnswered =>
        /\ probe.response.captcha =>
                probe.outcome = "VerificationCodeError"
        /\ (~probe.response.captcha /\ probe.response.cred) =>
                probe.outcome = "UserNamePasswordError"
        /\ (/\ ~probe.response.captcha
            /\ ~probe.response.cred
            /\ probe.response.form = "token") =>
                /\ probe.outcome = "returned"
                /\ crawler_token = probe.response.token
    /\ (probe.op = "login" /\ probe.outcome # "returned") =>
            crawler_token = probe.before

\* A page with both markers and a token, answered to a new client.
C19_Witness ==
    /\ LoginAnswered
    /\ probe.response.captcha
    /\ probe.response.cred
    /\ probe.response.token # None
    /\ probe.before = None
    /\ crawler_token = None

Suspended == pc = "wait_captcha"

C20_Released ==
    (Suspended /\ (captcha_code # NoText \/ cancelled)) =>
        ENABLED WaitCaptcha

C20_Step ==
    (Suspended /\ ~Suspended') => (captcha_code # NoText \/ cancelled)

\* C20: while run() waits for the operator's text, set_captcha with any
\* text the dialog can return (the empty one too) or cancel() ends the wait:
\* after either, the wait's condition lets run() go on; and run() leaves
\* the wait only after one of them.
C20_SuspensionEnds == []C20_Released /\ [][C20_Step]_vars

\* The POSTs made inside a logged-in session: the parameter selection of a
\* download call and the logout.
AuthenticatedPosts == {"POST select", "POST logout"}

MadeAuthenticatedPost ==
    \E i \in 1..Len(probe.effects) : probe.effects[i] \in AuthenticatedPosts

\* C21: every authenticated POST supplies the last observed token: the
\* parameter-selection POST of get_daily_data and get_monthly_data and the
\* POST of logout each carry, as the form's token field, the token the client
\* had stored when the call began.
C21_AuthenticatedPostsCarryToken ==
    MadeAuthenticatedPost => probe.sent = <<probe.before>>

\* A download call that failed, and whether it failed after the
\* parameter-selection response had been parsed for its token.
DownloadFailed == probe.op \in DownloadOps /\ probe.outcome # "returned"

ResponseParsed == probe.response # << >> /\ probe.response.form = "token"

\* C22, the state after a failed get_daily_data or get_monthly_data: the
\* stored token is cleared by no failure (it is the token the call began
\* with or the token scraped from the response, whatever that token's
\* value); it is the token the call began with
\* when the call failed before the parameter-selection response was parsed
\* (argument check, directory creation, request failure or timeout, response
\* without a token), and the token of that response when the export GET or
\* the file write failed.
C22_TokenAfterFailure ==
    DownloadFailed =>
        /\ \/ crawler_token = probe.before
           \/ ResponseParsed /\ crawler_token = probe.response.token
        /\ ~ResponseParsed => crawler_token = probe.before
        /\ ResponseParsed => crawler_token = probe.response.token

\* C22, the session: a failed download call leaves self._ss as it was.
C22_Step == DownloadFailed' => crawler_ss' = crawler_ss

\* C22: a failed download leaves the HTTP session object unchanged and the
\* stored token uncleared: unchanged when the failure came before the
\* parameter-selection response was parsed, and equal to that response's
\* token when the export GET or the file write failed.
C22_FailedDownloadFrame == []C22_TokenAfterFailure /\ [][C22_Step]_vars

\* The export GET of a monthly download failed after a response with a new
\* token was parsed: the new token is stored, the session is the one opened
\* by get_login_page.
C22_Witness ==
    /\ probe.op = "get_monthly_data"
    /\ probe.outcome = "RequestException"
    /\ probe.effects = <<"makedirs", "POST select", "GET export">>
    /\ probe.before # None
    /\ probe.response.token # probe.before
    /\ crawler_token = probe.response.token
    /\ crawler_ss # << >>

\* The challenge the latest get_login_page of this account returned: the
\* token and the image of the account's nBegin-th login page, in the
\* account's nBegin-th session.
LatestChallenge ==
    [token |-> page_token(nBegin), image |-> nBegin,
     session |-> session(idx, nBegin)]

\* C23, one login call of the login loop: a get_login_page was made since
\* the account's previous login call, and the call posts the token that
\* page gave, the text read from that page's image, in the session that
\* get_login_page opened.
C23_Step ==
    nLogin' = nLogin + 1 =>
        /\ nBegin = nLogin + 1
        /\ loginCall'.token = LatestChallenge.token
        /\ loginCall'.token = portalToken
        /\ loginCall'.image = LatestChallenge.image
        /\ loginCall'.session = LatestChallenge.session
        /\ loginCall.answer # "none" =>
                /\ loginCall'.token # loginCall.token
                /\ loginCall'.image # loginCall.image
                /\ loginCall'.session # loginCall.session

\* C23: every login call of the login loop uses the token and the image of
\* the get_login_page call immediately before it, made in a newly opened
\* session; after a rejected vericode below the threshold a new
\* get_login_page precedes the next login call, and no token, image or
\* session is used by two login calls.
C23_FreshChallenge == [][C23_Step]_vars

\* A second login call of an account was made, after a rejected vericode,
\* with the second challenge.
C23_Witness ==
    /\ nLogin = 2
    /\ nBegin = 2
    /\ retry_count >= 1
    /\ loginCall.token = page_token(2)
    /\ loginCall.image = 2
    /\ loginCall.session = session(idx, 2)

\* The images the latest worker step asked the operator to read.
PresentedImages ==
    {emitted[i].arg : i \in {j \in 1..Len(emitted) :
                                emitted[j].kind = "captcha_required"}}

\* C24: the image a captcha_required signal carries belongs to an unresolved
\* challenge, returned by a get_login_page made after the latest rejection:
\* it is never the image whose text the portal has just rejected.
C24_EscalatedImageIsLive ==
    \A image \in PresentedImages :
        loginCall.answer = "captcha_err" => loginCall.image < image

\* An account is being processed: run() is inside the loop body.
InAccount == pc \notin {"acct_check", "done", "returned"}

\* C25: each account is served by a CFMMCCrawler of its own: when the
\* account's processing begins the crawler has no token and no session; the
\* session it uses was opened by a get_login_page made for this account; a
\* login POST is made in that session, and a parameter-selection POST is made
\* in that session, after a login of this account, with a token this
\* account's session was given.
C25_NoLeakAcrossAccounts ==
    /\ (InAccount /\ nBegin = 0) =>
            crawler_token = None /\ crawler_ss = << >>
    /\ (InAccount /\ crawler_ss # << >>) =>
            /\ nBegin >= 1
            /\ crawler_ss = session(idx, nBegin)
    /\ (InAccount /\ crawler_token # None) =>
            /\ authenticated
            /\ crawler_token \in 1..portalToken
    /\ (InAccount /\ loginCall.answer # "none") =>
            loginCall.session = session(idx, loginCall.image)
    /\ posted # << >> =>
            /\ crawler_ss = session(idx, nBegin)
            /\ authenticated
            /\ posted[1].sent \in 1..posted[1].valid

\* The second account of a batch sends a parameter-selection POST after the
\* first account was logged in and served.
C25_Witness ==
    /\ idx = 2
    /\ begun = {1, 2}
    /\ failedAccts = {}
    /\ posted # << >>
    /\ crawler_ss = session(2, nBegin)

\* The kinds of the signals the latest worker step emitted.
EmittedKinds == {emitted[i].kind : i \in 1..Len(emitted)}

\* C26, the step that calls crawler.logout() for an account whose tasks were
\* all attempted: whether the logout POST returns or raises, the step emits
\* no error signal and no login_failed signal, and run() goes on to the
\* account loop's next pass.
C26_Step ==
    (pc = "logout" /\ loggedOut' /\ Len(calls) = Len(ExpectedCalls)) =>
        /\ EmittedKinds' \cap {"error", "login_failed"} = {}
        /\ pc' = "acct_check"

\* C26: a logout() that raises, for an account whose tasks were all
\* attempted, causes no error signal and no login_failed signal, and the next
\* account is processed as after a logout that returned.
C26_LogoutFailureSilent == [][C26_Step]_vars

\* The percents of the progress signals the latest worker step emitted.
EmittedPercents ==
    {emitted[i].arg : i \in {j \in 1..Len(emitted) :
                                emitted[j].kind = "progress"}}

\* C27: every progress signal carries an integer from 0 to 100, and the two
\* formulas never divide by zero: where a task's percent is computed the
\* list of periods and the number of tasks are not empty, and where an
\* account's percent is computed the list of accounts is not empty.
C27_PercentInRange ==
    /\ EmittedPercents \subseteq 0..100
    /\ \A i \in 1..Len(lastPercent) : lastPercent[i] \in 0..100
    /\ pc = "export" => Len(periods) > 0 /\ total_tasks > 0
    /\ pc = "logout" => Len(accounts) > 0

\* A task's progress signal in the middle of the scale: the first of two
\* periods of the only task, or the whole of the first of two tasks.
C27_Witness ==
    /\ pc = "p_head"
    /\ total_tasks >= 2
    /\ current_task >= 1
    /\ emitted = <<EventWith("progress",
                             TaskPercent(current_task, pi - 1, Len(periods),
                                         total_tasks))>>
    /\ EmittedPercents \cap 51..99 # {}

\* C28: edit_account with its four dialogs confirmed replaces the stored
\* record of the selected account (the record the selected row shows) by
\* the record of the new field values and leaves every other stored account
\* as it was, whatever the new account number is; with a dialog cancelled,
\* or no row selected, the stored accounts are as they were.
C28_EditChangesOnlySelected ==
    edited.called =>
        IF edited.confirmed
        THEN \E k \in 1..Len(edited.before) :
                /\ edited.before[k] = edited.shown[edited.row + 1]
                /\ original_accounts =
                        [edited.before EXCEPT ![k] = edited.new[1]]
        ELSE original_accounts = edited.before

====
